---- MODULE Spec2Model ----
(***************************************************************************)
(* The stream scheduler of                                                 *)
(* src/app/components-react/pages/stream-scheduler/StreamScheduler.tsx:    *)
(* the StreamSchedulerModule state container, the requests it has in       *)
(* flight to the YouTube and Facebook services, and the two normalizers.   *)
(*                                                                         *)
(* Encoding of JavaScript values:                                          *)
(*   ids          1..MaxId; NoId = 0 is the empty string '' (falsy)        *)
(*   epoch times  0..MaxTime; 0 is falsy, NaN is "Invalid Date".valueOf()  *)
(*   native times strings: "" (absent) or Iso(n), which parses to n        *)
(*   undefined    NoFacebook for the facebook sub-record of an event       *)
(*   resources    a broadcast's snippet.* and status.* fields are kept in  *)
(*                one flat record                                          *)
(***************************************************************************)
EXTENDS Integers, Sequences, FiniteSets, Bags, TLC

\* ------------------------------------------------------------------ bounds
MaxId == 2
MaxTime == 2
MaxInFlight == 2
MaxCalls == 3

\* new Date().setHours(0, 0, 0, 0): the start of the current local day
Today == 2

NoId == 0
NaN == -1
Ids == 1..MaxId
Times == 0..MaxTime
Platforms == {"youtube", "facebook"}
Titles == {"a", "b"}

Max(a, b) == IF a > b THEN a ELSE b
Min(a, b) == IF a < b THEN a ELSE b

\* ------------------------------------------------- native platform resources
\* An ISO-8601 time string of a platform response, and new Date(s).valueOf().
Iso(n) == "T" \o ToString(n)

DateValueOf(s) ==
    IF \E n \in Times : Iso(n) = s
    THEN CHOOSE n \in Times : Iso(n) = s
    ELSE NaN

\* The fallback field taken first.
OrElse_fallbackFirst(a, b) == IF b # "" THEN b ELSE a

\* a || b on native time strings: the empty (absent) string is falsy.
OrElse(a, b) == IF a # "" THEN a ELSE b

NoFacebook == [destinationType |-> "undefined", destinationId |-> "undefined"]

\* The shapes a platform answers with. Variant 1 is an upcoming resource with
\* its primary time field set, variant 2 one that only has the fallback field.
YtBroadcast(id, variant) ==
    IF variant = 1
    THEN [id |-> id, lifeCycleStatus |-> "ready",
          scheduledStartTime |-> Iso(MaxTime), actualStartTime |-> "",
          title |-> "a"]
    ELSE [id |-> id, lifeCycleStatus |-> "complete",
          scheduledStartTime |-> "", actualStartTime |-> Iso(1),
          title |-> "b"]

FbLiveVideo(id, variant) ==
    IF variant = 1
    THEN [id |-> id, planned_start_time |-> Iso(MaxTime),
          broadcast_start_time |-> "", title |-> "a"]
    ELSE [id |-> id, planned_start_time |-> "",
          broadcast_start_time |-> Iso(Today), title |-> "b"]

\* IFacebookLiveVideoExtended: the video with its destination.
Extended(video, destinationType, destinationId) ==
    [id |-> video.id, planned_start_time |-> video.planned_start_time,
     broadcast_start_time |-> video.broadcast_start_time, title |-> video.title,
     destinationType |-> destinationType, destinationId |-> destinationId]

Variants == {1, 2}
DestTypes == {"me", "page"}

\* FacebookService.views.getDestinationId(options)
getDestinationId(fbSettings) ==
    IF fbSettings.destinationType = "me" THEN "me" ELSE "page1"

\* ------------------------------------------------------------- normalizers
\* A normalizer that takes only a ready broadcast for scheduled.
convertYTBroadcastToEvent_readyOnly(ytBroadcast) ==
    [platform |-> "youtube",
     id |-> ytBroadcast.id,
     date |-> DateValueOf(OrElse(ytBroadcast.scheduledStartTime,
                                 ytBroadcast.actualStartTime)),
     title |-> ytBroadcast.title,
     status |-> IF ytBroadcast.lifeCycleStatus = "ready"
                THEN "scheduled" ELSE "completed",
     facebook |-> NoFacebook]

convertYTBroadcastToEvent(ytBroadcast) ==
    [platform |-> "youtube",
     id |-> ytBroadcast.id,
     date |-> DateValueOf(OrElse(ytBroadcast.scheduledStartTime,
                                 ytBroadcast.actualStartTime)),
     title |-> ytBroadcast.title,
     status |-> IF ytBroadcast.lifeCycleStatus \in {"created", "ready"}
                THEN "scheduled" ELSE "completed",
     facebook |-> NoFacebook]

convertFBLiveVideoToEvent(fbLiveVideo) ==
    [platform |-> "facebook",
     id |-> fbLiveVideo.id,
     date |-> DateValueOf(OrElse(fbLiveVideo.planned_start_time,
                                 fbLiveVideo.broadcast_start_time)),
     title |-> fbLiveVideo.title,
     status |-> "scheduled",
     facebook |-> [destinationType |-> fbLiveVideo.destinationType,
                   destinationId |-> fbLiveVideo.destinationId]]

\* ----------------------------------------------------- scheduler state
VARIABLES
    platforms,          \* get platforms(): linked platforms that support scheduling
    isLoading, isEventsLoaded, events, isModalVisible, selectedEventId,
    time, selectedPlatform, platformSettings,      \* StreamSchedulerModule.state
    ytLoad, fbLoad,     \* position of loadYTBEvents / loadFbEvents
    ytEvents, fbEvents, \* what their fetches resolved with
    allocated,          \* per platform, the ids the platform has given out
    edits,              \* showEditEventModal calls awaiting the options fetch
    validating,         \* submit() calls awaiting form.validateFields()
    saves,              \* create / update requests in flight
    confirming,         \* onDeleteClick awaiting the confirm dialog
    removes,            \* remote deletes in flight (never awaited)
    calls,              \* remote calls issued since the events were loaded
    last                \* what the last step did: operation, message, throw

state == <<isLoading, isEventsLoaded, events, isModalVisible, selectedEventId,
           time, selectedPlatform, platformSettings>>
vars == <<platforms, isLoading, isEventsLoaded, events, isModalVisible,
          selectedEventId, time, selectedPlatform, platformSettings,
          ytLoad, fbLoad, ytEvents, fbEvents, allocated, edits, validating,
          saves, confirming, removes, calls, last>>

\* get defaultPlatformSettings(): the services' settings with the ids cleared.
defaultPlatformSettings ==
    [youtube |-> [broadcastId |-> NoId, scheduledStartTime |-> 0, title |-> "a"],
     facebook |-> [liveVideoId |-> NoId, plannedStartTime |-> 0, title |-> "a",
                   destinationType |-> "me"]]

\* Array.prototype.findIndex(ev => ev.id === id), 0-based, -1 when absent.
findIndex(evs, id) ==
    IF \E i \in 1..Len(evs) : evs[i].id = id
    THEN (CHOOSE i \in 1..Len(evs) :
            evs[i].id = id /\ \A j \in 1..(i - 1) : evs[j].id # id) - 1
    ELSE -1

\* Array.prototype.splice(start, deleteCount, item) on a 0-based start: a
\* negative start counts from the end, and the count is clamped to what is left.
splice(evs, start, deleteCount, item) ==
    LET len == Len(evs)
        from == IF start < 0 THEN Max(len + start, 0) ELSE Min(start, len)
        del == Min(Max(deleteCount, 0), len - from)
    IN SubSeq(evs, 1, from) \o <<item>> \o SubSeq(evs, from + del + 1, len)

\* events.find(ev => id === ev.id): the first match, as a set of 0 or 1 events.
find(evs, id) ==
    LET ind == findIndex(evs, id) IN IF ind < 0 THEN {} ELSE {evs[ind + 1]}

\* get selectedEvent()
selectedEvent == find(events, selectedEventId)

\* get isUpdateMode()
isUpdateMode == selectedEventId # NoId

\* A setEvent that pushes the event, as addEvent does.
setEvent_push(evs, id, event) == Append(evs, event)

\* setEvent(id, event)
setEvent(evs, id, event) == splice(evs, findIndex(evs, id), 1, event)

\* REMOVE_EVENT(id)
REMOVE_EVENT(evs, id) == SelectSeq(evs, LAMBDA ev : ev.id # id)

\* setTime(time) on the draft settings of the selected platform
setTimeSettings(settings, platform, t) ==
    IF platform = "facebook"
    THEN [settings EXCEPT !.facebook.plannedStartTime = t]
    ELSE [settings EXCEPT !.youtube.scheduledStartTime = t]

\* The comparison the other way round: a date after today counts as past.
isPastDate_reversed(t, today) == t > today

\* showNewEventModal: const isPastDate = time < today
isPastDate(t, today) == t < today

\* showNewEventModal: selectedTime?.valueOf() || this.state.time
\* (selectedTime = NaN stands for a call without the argument)
resultingTime(selectedTime, stateTime) ==
    IF selectedTime = NaN \/ selectedTime = 0 THEN stateTime ELSE selectedTime

\* handleError: the message depends on the platform selected when it runs
MsgFacebook == "Please schedule no further than 7 days in advance and no sooner than 10 minutes in advance."
MsgGeneric == "Can not schedule the stream for the given date/time"
MsgPast == "You can not schedule to a past date"
MsgInvalid == "Invalid settings. Please check the form"
handleErrorMessage(platform) ==
    IF platform = "facebook" THEN MsgFacebook ELSE MsgGeneric

\* What a step did that the state does not show: the operation that completed,
\* the message.error it displayed, and whether it threw (an exception or a
\* promise rejection that nothing handles).
Did(op, msg, threw) == [op |-> op, msg |-> msg, threw |-> threw]

\* ------------------------------------------------------------------ Init
\* The state after construction, before init() has run.
Init ==
    /\ platforms \in {<<"youtube">>, <<"facebook">>, <<"youtube", "facebook">>}
    /\ isLoading = FALSE
    /\ isEventsLoaded = FALSE
    /\ events = <<>>
    /\ isModalVisible = FALSE
    /\ selectedEventId = NoId
    /\ time = 0
    /\ selectedPlatform = platforms[1]
    /\ platformSettings = defaultPlatformSettings
    /\ ytLoad = "idle" /\ fbLoad = "idle"
    /\ ytEvents = <<>> /\ fbEvents = <<>>
    /\ allocated = [p \in Platforms |-> {}]
    /\ edits = EmptyBag
    /\ validating = 0
    /\ saves = EmptyBag
    /\ confirming = FALSE
    /\ removes = 0
    /\ calls = 0
    /\ last = Did("new", "", FALSE)

linked(p) == \E i \in 1..Len(platforms) : platforms[i] = p

\* ------------------------------------------------------------- loadEvents
UNCHANGED_modal == UNCHANGED <<isLoading, isModalVisible, selectedEventId, time,
                               selectedPlatform>>
UNCHANGED_flight == UNCHANGED <<edits, validating, saves, confirming, removes,
                                calls>>

\* A load whose sequences go straight to the fetch, without prepopulateInfo().
init_noPrepopulate ==
    /\ ytLoad = "idle" /\ fbLoad = "idle"
    /\ events' = <<>>
    /\ platformSettings' = defaultPlatformSettings
    /\ fbLoad' = IF linked("facebook") THEN "fetch" ELSE "skipped"
    /\ ytLoad' = IF linked("youtube") THEN "fetch" ELSE "skipped"
    /\ last' = Did("loadEvents", "", FALSE)
    /\ UNCHANGED <<platforms, isEventsLoaded, ytEvents, fbEvents, allocated>>
    /\ UNCHANGED_modal /\ UNCHANGED_flight

\* init() -> loadEvents(): reset(), then both platform sequences start.
init ==
    /\ ytLoad = "idle" /\ fbLoad = "idle"
    /\ events' = <<>>
    /\ platformSettings' = defaultPlatformSettings
    /\ fbLoad' = IF linked("facebook") THEN "prepop" ELSE "skipped"
    /\ ytLoad' = IF linked("youtube") THEN "prepop" ELSE "skipped"
    /\ last' = Did("loadEvents", "", FALSE)
    /\ UNCHANGED <<platforms, isEventsLoaded, ytEvents, fbEvents, allocated>>
    /\ UNCHANGED_modal /\ UNCHANGED_flight

\* A resilient gather (Promise.allSettled): a failed sequence counts as settled.
resolved_allSettled(pc) ==
    pc \in {"done", "skipped", "prepopFailed", "fetchFailed"}

\* Promise.all: the join resolves when every sequence has resolved, and
\* rejects as soon as one has rejected.
resolved(pc) == pc \in {"done", "skipped"}
rejected(pc) == pc \in {"prepopFailed", "fetchFailed"}

\* The ids in increasing order, and the lists a platform can answer a fetch with.
SortedIds(S) ==
    CHOOSE s \in [1..Cardinality(S) -> S] :
        \A i, j \in 1..Cardinality(S) : i < j => s[i] < s[j]

\* In a fetched list the resources with an odd id are upcoming (variant 1), the
\* others are not (variant 2).
VariantOf(id) == IF id % 2 = 1 THEN 1 ELSE 2

YtFeeds ==
    {[i \in 1..Cardinality(S) |-> YtBroadcast(SortedIds(S)[i], VariantOf(SortedIds(S)[i]))] :
       S \in SUBSET Ids}

FbFeeds ==
    {[i \in 1..Cardinality(S) |->
        LET video == FbLiveVideo(SortedIds(S)[i], VariantOf(SortedIds(S)[i]))
            type == IF VariantOf(video.id) = 1 THEN "me" ELSE "page"
        IN Extended(video, type, getDestinationId([destinationType |-> type]))] :
       S \in SUBSET Ids}

IdsOf(list) == {list[i].id : i \in 1..Len(list)}

\* The Facebook events pushed before the YouTube events.
joined_fbFirst(yt, fb) ==
    [i \in 1..Len(fb) |-> convertFBLiveVideoToEvent(fb[i])]
    \o [i \in 1..Len(yt) |-> convertYTBroadcastToEvent(yt[i])]

\* loadEvents after the join: YouTube events first, then Facebook events.
joined(yt, fb) ==
    [i \in 1..Len(yt) |-> convertYTBroadcastToEvent(yt[i])]
    \o [i \in 1..Len(fb) |-> convertFBLiveVideoToEvent(fb[i])]

\* await prepopulateInfo() of loadYTBEvents settles.
ytPrepopulated(ok) ==
    /\ ytLoad = "prepop"
    /\ ytLoad' = IF ok THEN "fetch" ELSE "prepopFailed"
    /\ last' = IF ok THEN Did("loadYTBEvents", "", FALSE)
                      ELSE Did("loadYTBEventsRejected", "", ~rejected(fbLoad))
    /\ UNCHANGED <<platforms, isEventsLoaded, events, platformSettings, fbLoad,
                   ytEvents, fbEvents, allocated>>
    /\ UNCHANGED_modal /\ UNCHANGED_flight

fbPrepopulated(ok) ==
    /\ fbLoad = "prepop"
    /\ fbLoad' = IF ok THEN "fetch" ELSE "prepopFailed"
    /\ last' = IF ok THEN Did("loadFbEvents", "", FALSE)
                      ELSE Did("loadFbEventsRejected", "", ~rejected(ytLoad))
    /\ UNCHANGED <<platforms, isEventsLoaded, events, platformSettings, ytLoad,
                   ytEvents, fbEvents, allocated>>
    /\ UNCHANGED_modal /\ UNCHANGED_flight

\* fetchBroadcasts() resolves: when the Facebook side has resolved too, the
\* Promise.all continuation runs and setEvents commits the joined list.
ytFetched(list) ==
    /\ ytLoad = "fetch"
    /\ ytLoad' = "done"
    /\ allocated' = [allocated EXCEPT !.youtube = IdsOf(list)]
    /\ IF resolved(fbLoad)
       THEN /\ events' = joined(list, fbEvents)
            /\ isEventsLoaded' = TRUE
            /\ ytEvents' = list /\ fbEvents' = fbEvents
            /\ last' = Did("setEvents", "", FALSE)
       ELSE /\ ytEvents' = list
            /\ UNCHANGED <<events, isEventsLoaded, fbEvents>>
            /\ last' = Did("loadYTBEvents", "", FALSE)
    /\ UNCHANGED <<platforms, platformSettings, fbLoad>>
    /\ UNCHANGED_modal /\ UNCHANGED_flight

fbFetched(list) ==
    /\ fbLoad = "fetch"
    /\ fbLoad' = "done"
    /\ allocated' = [allocated EXCEPT !.facebook = IdsOf(list)]
    /\ IF resolved(ytLoad)
       THEN /\ events' = joined(ytEvents, list)
            /\ isEventsLoaded' = TRUE
            /\ fbEvents' = list /\ ytEvents' = ytEvents
            /\ last' = Did("setEvents", "", FALSE)
       ELSE /\ fbEvents' = list
            /\ UNCHANGED <<events, isEventsLoaded, ytEvents>>
            /\ last' = Did("loadFbEvents", "", FALSE)
    /\ UNCHANGED <<platforms, platformSettings, ytLoad>>
    /\ UNCHANGED_modal /\ UNCHANGED_flight

\* fetchBroadcasts() / fetchAllVideos() rejects: Promise.all rejects, loadEvents
\* throws past init(), which neither awaits nor catches it.
ytFetchFailed ==
    /\ ytLoad = "fetch"
    /\ ytLoad' = "fetchFailed"
    /\ fbEvents' = fbEvents
    /\ last' = Did("loadYTBEventsRejected", "", ~rejected(fbLoad))
    /\ UNCHANGED <<platforms, isEventsLoaded, events, platformSettings, fbLoad,
                   ytEvents, allocated>>
    /\ UNCHANGED_modal /\ UNCHANGED_flight

fbFetchFailed ==
    /\ fbLoad = "fetch"
    /\ fbLoad' = "fetchFailed"
    /\ ytEvents' = ytEvents
    /\ last' = Did("loadFbEventsRejected", "", ~rejected(ytLoad))
    /\ UNCHANGED <<platforms, isEventsLoaded, events, platformSettings, ytLoad,
                   fbEvents, allocated>>
    /\ UNCHANGED_modal /\ UNCHANGED_flight

\* ------------------------------------------------------------ the modal
UNCHANGED_load == UNCHANGED <<platforms, isEventsLoaded, ytLoad, fbLoad,
                              ytEvents, fbEvents>>

\* What the user can reach: the calendar is covered by the loading spinner
\* until the events are loaded and by the modal's mask while it is open; the
\* form is covered by the spinner while isLoading; the confirm dialog covers all.
\* The asynchronous operations of the module that have not settled yet.
inFlight ==
    BagCardinality(edits) + validating + BagCardinality(saves) + removes
    + (IF confirming THEN 1 ELSE 0)

\* The remote calls issued, and those a pending validation or confirmation
\* may still issue.
budget == calls + validating + (IF confirming THEN 1 ELSE 0)

BagAdd(bag, x) == bag (+) SetToBag({x})
BagRemove(bag, x) == bag (-) SetToBag({x})

calendarUsable == isEventsLoaded /\ ~isModalVisible /\ ~confirming
formUsable == isModalVisible /\ ~isLoading /\ ~confirming

\* @mutation showNewEventModal(platform, selectedTime?)
showNewEventModal(platform, selectedTime) ==
    LET t == resultingTime(selectedTime, time) IN
    /\ IF isPastDate(t, Today)
       THEN /\ last' = Did("showNewEventModal", MsgPast, FALSE)
            /\ UNCHANGED <<selectedPlatform, isModalVisible, time, platformSettings>>
       ELSE /\ selectedPlatform' = platform
            /\ isModalVisible' = TRUE
            /\ time' = t
            /\ platformSettings' = setTimeSettings(platformSettings, platform, t)
            /\ last' = Did("showNewEventModal", "", FALSE)
    /\ UNCHANGED <<isLoading, events, selectedEventId, allocated>>
    /\ UNCHANGED_load /\ UNCHANGED_flight

\* onDaySelectHandler(date): a click on a day cell of the calendar
onDaySelectHandler(date) ==
    /\ calendarUsable
    /\ showNewEventModal(selectedPlatform, date)

\* The platform list of the form, shown when not in update mode
onChangePlatform(platform) ==
    /\ formUsable /\ ~isUpdateMode
    /\ linked(platform)
    /\ showNewEventModal(platform, NaN)

\* TimeInput onChange -> @mutation setTime(time)
setTime(t) ==
    /\ formUsable
    /\ time' = t
    /\ platformSettings' = setTimeSettings(platformSettings, selectedPlatform, t)
    /\ last' = Did("setTime", "", FALSE)
    /\ UNCHANGED <<isLoading, events, isModalVisible, selectedEventId,
                   selectedPlatform, allocated>>
    /\ UNCHANGED_load /\ UNCHANGED_flight

\* Object.assign(target, patch): every key of the patch is written to the
\* target, the other keys of the target stay.
assign(target, patch) ==
    [k \in DOMAIN target \cup DOMAIN patch |->
        IF k \in DOMAIN patch THEN patch[k] ELSE target[k]]

\* The settings objects a platform sub-form hands to its onChange: the object it
\* was given as value (the draft, with its ids and start time), with the fields
\* of the sub-form edited: the title and, on facebook, the destination type.
\* The time field of the form is the TimeInput, which calls setTime.
Patches(settings, platform) ==
    IF platform = "facebook"
    THEN {[settings EXCEPT !.title = title, !.destinationType = dest] :
            title \in Titles, dest \in DestTypes}
    ELSE {[settings EXCEPT !.title = title] : title \in Titles}

\* The platform sub-form's onChange -> @mutation updatePlatform(platform, patch)
updatePlatform(platform, patch) ==
    /\ formUsable
    /\ platform = selectedPlatform
    /\ platformSettings' =
          [platformSettings EXCEPT ![platform] = assign(platformSettings[platform], patch)]
    /\ last' = Did("updatePlatform", "", FALSE)
    /\ UNCHANGED <<isLoading, events, isModalVisible, selectedEventId, time,
                   selectedPlatform, allocated>>
    /\ UNCHANGED_load /\ UNCHANGED_flight

\* @mutation closeModal()
closeModal ==
    /\ selectedEventId' = NoId
    /\ isModalVisible' = FALSE
    /\ platformSettings' = defaultPlatformSettings
    /\ isLoading' = FALSE
    /\ last' = Did("closeModal", "", FALSE)
    /\ UNCHANGED <<events, time, selectedPlatform, allocated>>
    /\ UNCHANGED_load /\ UNCHANGED_flight

\* The Modal's onCancel={closeModal}: the close button or the mask of the open
\* modal, which the loading spinner does not cover.
onCancel ==
    /\ isModalVisible /\ ~confirming
    /\ closeModal

\* The Modal's afterClose={closeModal}: the same call, made by the modal once it
\* has been hidden, whatever has happened in between.
afterClose ==
    /\ ~isModalVisible
    /\ closeModal

\* The module's state as one record, and closeModal() as a function of it.
stateRecord ==
    [isLoading |-> isLoading, isEventsLoaded |-> isEventsLoaded, events |-> events,
     isModalVisible |-> isModalVisible, selectedEventId |-> selectedEventId,
     time |-> time, selectedPlatform |-> selectedPlatform,
     platformSettings |-> platformSettings]

\* A closeModal() that flips the loader instead of clearing it.
closeModalState_flipLoader(st) ==
    [st EXCEPT !.selectedEventId = NoId, !.isModalVisible = FALSE,
               !.platformSettings = defaultPlatformSettings,
               !.isLoading = ~st.isLoading]

closeModalState(st) ==
    [st EXCEPT !.selectedEventId = NoId, !.isModalVisible = FALSE,
               !.platformSettings = defaultPlatformSettings,
               !.isLoading = FALSE]

\* showEditEventModal(eventId) up to its await: a click on an event of the
\* calendar looks the event up by id and asks the platform for its options.
showEditEventModal(eventId) ==
    /\ calendarUsable
    /\ inFlight < MaxInFlight /\ budget < MaxCalls
    /\ find(events, eventId) # {}
    /\ edits' = BagAdd(edits, CHOOSE ev \in find(events, eventId) : TRUE)
    /\ calls' = calls + 1
    /\ last' = Did("showEditEventModal", "", FALSE)
    /\ UNCHANGED <<events, platformSettings, allocated, validating, saves,
                   confirming, removes>>
    /\ UNCHANGED_modal /\ UNCHANGED_load

\* The start-stream options a platform answers for one resource. The start time
\* is the platform's current one: the time the calendar holds for the event, or
\* another one (0 stands for any time that differs from the calendar's).
startStreamOptions(event, start) ==
    IF event.platform = "youtube"
    THEN [broadcastId |-> event.id, scheduledStartTime |-> start,
          title |-> event.title]
    ELSE [liveVideoId |-> event.id, plannedStartTime |-> start,
          title |-> event.title,
          destinationType |-> event.facebook.destinationType]

\* A SHOW_EDIT_EVENT_MODAL that leaves state.time alone.
SHOW_EDIT_EVENT_MODAL_keepsTime(event, settings) ==
    /\ BagIn(event, edits)
    /\ edits' = BagRemove(edits, event)
    /\ selectedEventId' = event.id
    /\ selectedPlatform' = event.platform
    /\ platformSettings' = [platformSettings EXCEPT ![event.platform] = settings]
    /\ isModalVisible' = TRUE
    /\ last' = Did("SHOW_EDIT_EVENT_MODAL", "", FALSE)
    /\ UNCHANGED <<isLoading, events, time, allocated, validating, saves,
                   confirming, removes, calls>>
    /\ UNCHANGED_load

\* @mutation SHOW_EDIT_EVENT_MODAL(event, platformSettings), run when the
\* options fetch of showEditEventModal resolves
SHOW_EDIT_EVENT_MODAL(event, settings) ==
    /\ BagIn(event, edits)
    /\ edits' = BagRemove(edits, event)
    /\ selectedEventId' = event.id
    /\ selectedPlatform' = event.platform
    /\ platformSettings' = [platformSettings EXCEPT ![event.platform] = settings]
    /\ isModalVisible' = TRUE
    /\ time' = event.date
    /\ last' = Did("SHOW_EDIT_EVENT_MODAL", "", FALSE)
    /\ UNCHANGED <<isLoading, events, allocated, validating, saves, confirming,
                   removes, calls>>
    /\ UNCHANGED_load

\* The options fetch rejects: showEditEventModal throws, nobody catches it.
showEditEventModalFailed(event) ==
    /\ BagIn(event, edits)
    /\ edits' = BagRemove(edits, event)
    /\ last' = Did("showEditEventModal", "", TRUE)
    /\ UNCHANGED <<events, platformSettings, allocated, validating, saves,
                   confirming, removes, calls>>
    /\ UNCHANGED_modal /\ UNCHANGED_load

\* ------------------------------------------------------------------ submit
\* submit() up to its await: a click on Save or Schedule (disabled while
\* isLoading) starts form.validateFields().
submit ==
    /\ formUsable
    /\ inFlight < MaxInFlight /\ budget < MaxCalls
    /\ validating' = validating + 1
    /\ last' = Did("submit", "", FALSE)
    /\ UNCHANGED <<events, platformSettings, allocated, edits, saves, confirming,
                   removes, calls>>
    /\ UNCHANGED_modal /\ UNCHANGED_load

\* A request of saveExistingStream / saveNewStream, with what the call captured.
Request(kind, platform, id, fbOptions) ==
    [kind |-> kind, platform |-> platform, id |-> id, fbOptions |-> fbOptions]

\* getDefined(this.selectedEvent) and getDefined(event.facebook) both pass
hasFacebookOptions(evs, id) ==
    \E ev \in find(evs, id) : ev.facebook # NoFacebook

facebookOptions(evs, id) == (CHOOSE ev \in find(evs, id) : TRUE).facebook

\* A submit without the return in its catch block: after the message it goes
\* on to showLoader().
submitInvalid_noReturn ==
    /\ validating > 0
    /\ validating' = validating - 1
    /\ isLoading' = TRUE
    /\ last' = Did("submit", MsgInvalid, FALSE)
    /\ UNCHANGED <<events, isModalVisible, selectedEventId, time, selectedPlatform,
                   platformSettings, allocated, edits, saves, confirming,
                   removes, calls>>
    /\ UNCHANGED_load

\* validateFields() rejects: submit reports the error and returns.
submitInvalid ==
    /\ validating > 0
    /\ validating' = validating - 1
    /\ last' = Did("submit", MsgInvalid, FALSE)
    /\ UNCHANGED <<events, platformSettings, allocated, edits, saves, confirming,
                   removes, calls>>
    /\ UNCHANGED_modal /\ UNCHANGED_load

\* validateFields() resolves, update mode: showLoader(), then
\* saveExistingStream() up to its await.
saveExistingStream ==
    /\ validating > 0 /\ isUpdateMode
    /\ validating' = validating - 1
    /\ isLoading' = TRUE
    /\ IF selectedPlatform = "youtube"
       THEN /\ saves' = BagAdd(saves,
                  Request("update", "youtube", selectedEventId, NoFacebook))
            /\ calls' = calls + 1
            /\ last' = Did("saveExistingStream", "", FALSE)
       ELSE IF hasFacebookOptions(events, selectedEventId)
       THEN /\ saves' = BagAdd(saves,
                  Request("update", "facebook", selectedEventId,
                          facebookOptions(events, selectedEventId)))
            /\ calls' = calls + 1
            /\ last' = Did("saveExistingStream", "", FALSE)
       ELSE /\ UNCHANGED <<saves, calls>>
            /\ last' = Did("saveExistingStream", "", TRUE)
    /\ UNCHANGED <<events, isModalVisible, selectedEventId, time, selectedPlatform,
                   platformSettings, allocated, edits, confirming, removes>>
    /\ UNCHANGED_load

\* validateFields() resolves, create mode: showLoader(), then saveNewStream()
\* up to its await of service.scheduleStream(time, streamSettings).
saveNewStream ==
    /\ validating > 0 /\ ~isUpdateMode
    /\ validating' = validating - 1
    /\ isLoading' = TRUE
    /\ saves' = BagAdd(saves, Request("create", selectedPlatform, NoId, NoFacebook))
    /\ calls' = calls + 1
    /\ last' = Did("saveNewStream", "", FALSE)
    /\ UNCHANGED <<events, isModalVisible, selectedEventId, time, selectedPlatform,
                   platformSettings, allocated, edits, confirming, removes>>
    /\ UNCHANGED_load

\* A close that hides the modal but keeps the selection and the drafts.
closeModalAfterSave_keepsDrafts ==
    /\ isModalVisible' = FALSE
    /\ isLoading' = FALSE
    /\ UNCHANGED <<selectedEventId, platformSettings>>

\* closeModal() at the end of a save
closeModalAfterSave ==
    /\ selectedEventId' = NoId
    /\ isModalVisible' = FALSE
    /\ platformSettings' = defaultPlatformSettings
    /\ isLoading' = FALSE

\* handleError(e): the message, then hideLoader()
handleError(op) ==
    /\ isLoading' = FALSE
    /\ last' = Did(op, handleErrorMessage(selectedPlatform), FALSE)
    /\ UNCHANGED <<events, isModalVisible, selectedEventId, time, selectedPlatform,
                   platformSettings>>

\* The event saveExistingStream makes of the platform's answer.
updatedEvent(req, variant) ==
    IF req.platform = "youtube"
    THEN convertYTBroadcastToEvent(YtBroadcast(req.id, variant))
    ELSE convertFBLiveVideoToEvent(
             Extended(FbLiveVideo(req.id, variant), req.fbOptions.destinationType,
                      req.fbOptions.destinationId))

\* updateBroadcast / updateLiveVideo resolves with the updated resource.
saveExistingStreamResolved(req, variant) ==
    /\ BagIn(req, saves) /\ req.kind = "update"
    /\ saves' = BagRemove(saves, req)
    /\ events' = setEvent(events, req.id, updatedEvent(req, variant))
    /\ closeModalAfterSave
    /\ last' = Did("saveExistingStreamResolved", "", FALSE)
    /\ UNCHANGED <<time, selectedPlatform, allocated, edits, validating,
                   confirming, removes, calls>>
    /\ UNCHANGED_load

\* The update rejects: only the Facebook call sits in a try/catch.
saveExistingStreamRejected(req) ==
    /\ BagIn(req, saves) /\ req.kind = "update"
    /\ saves' = BagRemove(saves, req)
    /\ IF req.platform = "youtube"
       THEN /\ last' = Did("saveExistingStreamRejected", "", TRUE)
            /\ UNCHANGED state
       ELSE handleError("saveExistingStreamRejected")
    /\ UNCHANGED <<allocated, edits, validating, confirming, removes, calls>>
    /\ UNCHANGED_load

\* The event saveNewStream makes of the platform's answer; the Facebook
\* destination is read from the draft settings at that moment.
createdEvent(req, id, settings) ==
    IF req.platform = "youtube"
    THEN convertYTBroadcastToEvent(YtBroadcast(id, 1))
    ELSE convertFBLiveVideoToEvent(
             Extended(FbLiveVideo(id, 1), settings.facebook.destinationType,
                      getDestinationId(settings.facebook)))

\* scheduleStream resolves with a new resource under an id of the platform's.
saveNewStreamResolved(req, id) ==
    /\ BagIn(req, saves) /\ req.kind = "create"
    /\ id \in Ids \ allocated[req.platform]
    /\ allocated' = [allocated EXCEPT ![req.platform] = @ \cup {id}]
    /\ saves' = BagRemove(saves, req)
    /\ events' = setEvent(events, id, createdEvent(req, id, platformSettings))
    /\ closeModalAfterSave
    /\ last' = Did("saveNewStreamResolved", "", FALSE)
    /\ UNCHANGED <<time, selectedPlatform, edits, validating, confirming, removes,
                   calls>>
    /\ UNCHANGED_load

saveNewStreamRejected(req) ==
    /\ BagIn(req, saves) /\ req.kind = "create"
    /\ saves' = BagRemove(saves, req)
    /\ handleError("saveNewStreamRejected")
    /\ UNCHANGED <<allocated, edits, validating, confirming, removes, calls>>
    /\ UNCHANGED_load

\* ------------------------------------------------------------------ remove
\* onDeleteClick up to its await: the Delete button is rendered for a selected
\* event whose status is scheduled.
onDeleteClick ==
    /\ isModalVisible /\ ~confirming
    /\ inFlight < MaxInFlight /\ budget < MaxCalls
    /\ \E ev \in selectedEvent : ev.status = "scheduled"
    /\ confirming' = TRUE
    /\ last' = Did("onDeleteClick", "", FALSE)
    /\ UNCHANGED <<events, platformSettings, allocated, edits, validating, saves,
                   removes, calls>>
    /\ UNCHANGED_modal /\ UNCHANGED_load

\* The confirm dialog is dismissed.
confirmNo ==
    /\ confirming
    /\ confirming' = FALSE
    /\ last' = Did("onDeleteClick", "", FALSE)
    /\ UNCHANGED <<events, platformSettings, allocated, edits, validating, saves,
                   removes, calls>>
    /\ UNCHANGED_modal /\ UNCHANGED_load

\* The confirm dialog is accepted: remove()
remove ==
    /\ confirming
    /\ confirming' = FALSE
    /\ IF selectedPlatform = "youtube" \/ hasFacebookOptions(events, selectedEventId)
       THEN /\ removes' = removes + 1
            /\ calls' = calls + 1
            /\ events' = REMOVE_EVENT(events, selectedEventId)
            /\ selectedEventId' = NoId
            /\ isModalVisible' = FALSE
            /\ platformSettings' = defaultPlatformSettings
            /\ isLoading' = FALSE
            /\ last' = Did("remove", "", FALSE)
       ELSE /\ isLoading' = TRUE
            /\ last' = Did("remove", "", TRUE)
            /\ UNCHANGED <<removes, calls, events, selectedEventId, isModalVisible,
                           platformSettings>>
    /\ UNCHANGED <<time, selectedPlatform, allocated, edits, validating, saves>>
    /\ UNCHANGED_load

\* removeBroadcast / removeLiveVideo settles; remove() kept no handle on it.
removeSettled(ok) ==
    /\ removes > 0
    /\ removes' = removes - 1
    /\ last' = Did("removeSettled", "", ~ok)
    /\ UNCHANGED <<events, platformSettings, allocated, edits, validating, saves,
                   confirming, calls>>
    /\ UNCHANGED_modal /\ UNCHANGED_load

\* -------------------------------------------------------------------- Next
Next ==
    \/ init
    \/ \E ok \in BOOLEAN : ytPrepopulated(ok)
    \/ \E ok \in BOOLEAN : fbPrepopulated(ok)
    \/ \E list \in YtFeeds : ytFetched(list)
    \/ \E list \in FbFeeds : fbFetched(list)
    \/ ytFetchFailed
    \/ fbFetchFailed
    \/ \E t \in Times : onDaySelectHandler(t)
    \/ \E p \in Platforms : onChangePlatform(p)
    \/ \E t \in Times : setTime(t)
    \/ \E p \in Platforms : \E patch \in Patches(platformSettings[p], p) :
          updatePlatform(p, patch)
    \/ onCancel
    \/ afterClose
    \/ \E id \in Ids : showEditEventModal(id)
    \/ \E ev \in BagToSet(edits) : \E start \in {0, ev.date} :
          SHOW_EDIT_EVENT_MODAL(ev, startStreamOptions(ev, start))
    \/ \E ev \in BagToSet(edits) : showEditEventModalFailed(ev)
    \/ submit
    \/ submitInvalid
    \/ saveExistingStream
    \/ saveNewStream
    \/ \E req \in BagToSet(saves), variant \in Variants : saveExistingStreamResolved(req, variant)
    \/ \E req \in BagToSet(saves) : saveExistingStreamRejected(req)
    \/ \E req \in BagToSet(saves), id \in Ids : saveNewStreamResolved(req, id)
    \/ \E req \in BagToSet(saves) : saveNewStreamRejected(req)
    \/ onDeleteClick
    \/ confirmNo
    \/ remove
    \/ \E ok \in BOOLEAN : removeSettled(ok)

Spec == Init /\ [][Next]_vars

\* ------------------------------------------------------------ the calendar
\* SchedulerCalendar renders one cell per day from events. A day is DayLength
\* milliseconds long; the calendar shows the days 0..MaxDay.
MaxDay == 1
DayLength == 3
MaxCells == 2
CalTimes == 0..((MaxDay + 1) * DayLength - 1)

\* moment(date).startOf('day') and moment(date).endOf('day'): the first and the
\* last millisecond of the day of date.
startOfDay(date) == date - (date % DayLength)
endOfDay(date) == startOfDay(date) + DayLength - 1

\* moment(x).isBetween(a, b): both ends excluded; false for an invalid date.
isBetween(x, a, b) == x # NaN /\ a < x /\ x < b

\* Array.prototype.sort((ev1, ev2) => ev1.date - ev2.date): ascending, stable.
RECURSIVE sortByDate(_)
sortByDate(evs) ==
    IF evs = <<>> THEN <<>>
    ELSE LET ev == evs[Len(evs)]
             front == sortByDate(SubSeq(evs, 1, Len(evs) - 1))
             keep == Cardinality({i \in 1..Len(front) : front[i].date <= ev.date})
         IN SubSeq(front, 1, keep) \o <<ev>> \o SubSeq(front, keep + 1, Len(front))

\* dateCellRender(date): the events the cell of date's day lists.
dateCellRender(date, evs) ==
    LET start == startOfDay(date)
        end == endOfDay(date)
    IN sortByDate(SelectSeq(evs, LAMBDA ev : isBetween(ev.date, start, end)))

\* The event lists the calendar is rendered from.
CalendarEvents ==
    [platform : {"youtube"}, id : Ids, date : CalTimes \cup {NaN}, title : {"a"},
     status : {"scheduled"}, facebook : {NoFacebook}]
CalendarInputs ==
    UNION {[1..n -> CalendarEvents] : n \in 0..MaxCells}

InitCalendar ==
    /\ platforms = <<"youtube">>
    /\ isLoading = FALSE
    /\ isEventsLoaded = TRUE
    /\ events \in CalendarInputs
    /\ isModalVisible = FALSE
    /\ selectedEventId = NoId
    /\ time = 0
    /\ selectedPlatform = "youtube"
    /\ platformSettings = defaultPlatformSettings
    /\ ytLoad = "done" /\ fbLoad = "skipped"
    /\ ytEvents = <<>> /\ fbEvents = <<>>
    /\ allocated = [p \in Platforms |-> {}]
    /\ edits = EmptyBag
    /\ validating = 0
    /\ saves = EmptyBag
    /\ confirming = FALSE
    /\ removes = 0
    /\ calls = 0
    /\ last = Did("setEvents", "", FALSE)

\* The Calendar asks for the cell of one date.
Calendar(date) ==
    /\ isEventsLoaded
    /\ last' = [op |-> "dateCellRender", date |-> date,
                cell |-> dateCellRender(date, events)]
    /\ UNCHANGED <<platforms, isLoading, isEventsLoaded, events, isModalVisible,
                   selectedEventId, time, selectedPlatform, platformSettings,
                   ytLoad, fbLoad, ytEvents, fbEvents, allocated, edits,
                   validating, saves, confirming, removes, calls>>

NextCalendar == \E date \in CalTimes : Calendar(date)

SpecCalendar == InitCalendar /\ [][NextCalendar]_vars

\* --------------------------------------------------- the normalizers alone
\* One native resource of any shape is fetched and committed by the load.
LifeCycleStatuses == {"created", "ready", "testing", "live", "complete", "revoked"}
NativeTimes == {""} \cup {Iso(n) : n \in Times}

YtInputs ==
    {<<b>> : b \in [id : Ids, lifeCycleStatus : LifeCycleStatuses,
                     scheduledStartTime : NativeTimes,
                     actualStartTime : NativeTimes, title : Titles]}

FbInputs ==
    {<<Extended(v, type, getDestinationId([destinationType |-> type]))>> :
        v \in [id : Ids, planned_start_time : NativeTimes,
               broadcast_start_time : NativeTimes, title : Titles],
        type \in DestTypes}

\* The load at the point where one platform has resolved with an empty list
\* and the other one's fetch is pending.
InitNormalize ==
    /\ platforms = <<"youtube", "facebook">>
    /\ isLoading = FALSE
    /\ isEventsLoaded = FALSE
    /\ events = <<>>
    /\ isModalVisible = FALSE
    /\ selectedEventId = NoId
    /\ time = 0
    /\ selectedPlatform = "youtube"
    /\ platformSettings = defaultPlatformSettings
    /\ \/ ytLoad = "fetch" /\ fbLoad = "done"
       \/ ytLoad = "done" /\ fbLoad = "fetch"
    /\ ytEvents = <<>> /\ fbEvents = <<>>
    /\ allocated = [p \in Platforms |-> {}]
    /\ edits = EmptyBag
    /\ validating = 0
    /\ saves = EmptyBag
    /\ confirming = FALSE
    /\ removes = 0
    /\ calls = 0
    /\ last = Did("loadEvents", "", FALSE)

NextNormalize ==
    \/ \E list \in YtInputs : ytFetched(list)
    \/ \E list \in FbInputs : fbFetched(list)

SpecNormalize == InitNormalize /\ [][NextNormalize]_vars

\* ================================================================= claims
Range(seq) == {seq[i] : i \in 1..Len(seq)}
RejectedLoad == {"prepopFailed", "fetchFailed"}

\* C1: when a create succeeds, events grows by exactly one entry, the new
\* entry carries the id the platform returned, and every entry that was in
\* the list is still in it.
C1_CreateAppends ==
    [][last'.op = "saveNewStreamResolved" =>
        /\ Len(events') = Len(events) + 1
        /\ \E p \in Platforms : \E id \in allocated'[p] \ allocated[p] :
              \E i \in 1..Len(events') :
                 events'[i].id = id /\ events'[i].platform = p
        /\ Range(events) \subseteq Range(events')]_vars

\* C2: when an update succeeds, the entry with the request's id is replaced
\* at its position by an event with the same id, no other entry changes, the
\* length is unchanged and the modal is closed.
C2_UpdateReplaces ==
    [][last'.op = "saveExistingStreamResolved" =>
        \A req \in BagToSet(saves) :
           (req.kind = "update" /\ saves' = BagRemove(saves, req)) =>
              /\ Len(events') = Len(events)
              /\ \E pos \in 1..Len(events) :
                    /\ events[pos].id = req.id
                    /\ events'[pos].id = req.id
                    /\ \A i \in 1..Len(events) \ {pos} : events'[i] = events[i]
              /\ ~isModalVisible']_vars

\* C3: when the remote create or update call fails, a message is shown, the
\* events and the modal's visibility are unchanged and isLoading is false.
C3_SaveFailureReported ==
    [][last'.op \in {"saveExistingStreamRejected", "saveNewStreamRejected"} =>
        /\ last'.msg # ""
        /\ events' = events
        /\ isModalVisible' = isModalVisible
        /\ isLoading' = FALSE]_vars

\* C4: every failure of a platform call of loadEvents or of a save is caught
\* and shown as a message; none is thrown past the command.
C4_FailuresCaught ==
    last.op \in {"loadYTBEventsRejected", "loadFbEventsRejected",
                 "saveExistingStreamRejected", "saveNewStreamRejected"}
        => ~last.threw /\ last.msg # ""

\* C5: events stays empty until both fetches have resolved; the step that
\* sees the second one resolve sets events to the normalized YouTube
\* broadcasts followed by the normalized Facebook videos, each with its
\* platform tag, and sets isEventsLoaded, whatever the two lists hold.
C5_LoadCommitsBoth ==
    /\ ~isEventsLoaded => events = <<>>
    /\ (ytLoad \in {"done", "skipped"} /\ fbLoad \in {"done", "skipped"})
          => isEventsLoaded
    /\ last.op = "setEvents" =>
          /\ isEventsLoaded
          /\ Len(events) = Len(ytEvents) + Len(fbEvents)
          /\ \A i \in 1..Len(ytEvents) :
                /\ events[i] = convertYTBroadcastToEvent(ytEvents[i])
                /\ events[i].platform = "youtube"
          /\ \A i \in 1..Len(fbEvents) :
                /\ events[Len(ytEvents) + i] = convertFBLiveVideoToEvent(fbEvents[i])
                /\ events[Len(ytEvents) + i].platform = "facebook"

\* Two YouTube broadcasts and one Facebook video have just been committed.
C5_Witness ==
    last.op = "setEvents" /\ Len(ytEvents) = 2 /\ Len(fbEvents) = 1 /\ Len(events) = 3

\* C6: once the sequence of either platform has failed, events is empty and
\* isEventsLoaded is false, whatever the other platform has answered.
C6_FailFast ==
    (ytLoad \in RejectedLoad \/ fbLoad \in RejectedLoad)
        => events = <<>> /\ ~isEventsLoaded

\* Facebook failed although YouTube has answered with broadcasts.
C6_Witness ==
    fbLoad \in RejectedLoad /\ ytLoad = "done" /\ Len(ytEvents) > 0

\* C7: remove() takes every event with the selected id out of events, closes
\* the modal and clears the loader in the step that issues the remote delete.
C7_RemoveAlways ==
    [][last'.op = "remove" =>
        /\ \A i \in 1..Len(events') : events'[i].id # selectedEventId
        /\ removes' = removes + 1
        /\ ~isModalVisible' /\ selectedEventId' = NoId /\ ~isLoading']_vars

\* C8: removing the selected event, or replacing the event of an update,
\* leaves every event of the other platform in events, also one with the
\* same id.
C8_IdentityKey ==
    [][/\ (last'.op = "remove" /\ ~last'.threw) =>
            \A i \in 1..Len(events) :
               events[i].platform # selectedPlatform
                  => events[i] \in Range(events')
       /\ last'.op = "saveExistingStreamResolved" =>
            \A req \in BagToSet(saves) :
               (req.kind = "update" /\ saves' = BagRemove(saves, req)) =>
                  \A i \in 1..Len(events) :
                     events[i].platform # req.platform
                        => events[i] \in Range(events')]_vars

\* C9: showNewEventModal(platform, t) whose resulting time (t, or state.time
\* when t is absent or 0) lies before the start of today shows the past-date
\* error and leaves the modal, the selection, the time, the drafts and the
\* events as they were.
C9_PastDateRejected ==
    [][\A p \in Platforms : \A t \in Times \cup {NaN} :
          (/\ last'.op = "showNewEventModal"
           /\ (IF t = NaN \/ t = 0 THEN time ELSE t) < Today
           /\ showNewEventModal(p, t))
          => /\ last'.msg = MsgPast
             /\ UNCHANGED <<isModalVisible, selectedPlatform, time,
                            platformSettings, selectedEventId, events>>]_vars

\* A past date was refused while events were on the calendar.
C9_Witness ==
    last.op = "showNewEventModal" /\ last.msg = MsgPast /\ events # <<>>

\* The draft start time of a platform.
draftStartTime(settings, platform) ==
    IF platform = "facebook" THEN settings.facebook.plannedStartTime
    ELSE settings.youtube.scheduledStartTime

\* C10: after showNewEventModal, setTime and the opening of the edit modal, the
\* draft start time of the selected platform equals state.time.
C10_TimeInSync ==
    [][(last'.op \in {"showNewEventModal", "setTime", "SHOW_EDIT_EVENT_MODAL"}
        /\ last'.msg = "")
        => draftStartTime(platformSettings', selectedPlatform') = time']_vars

\* C11: when validateFields() rejects, submit shows the invalid-settings
\* message and does nothing else: no request is issued, the loader is not
\* shown, and events, the selection and the modal's visibility are unchanged.
C11_InvalidFormNoAction ==
    [][(last'.op = "submit" /\ last'.msg = MsgInvalid) =>
        /\ saves' = saves /\ calls' = calls /\ removes' = removes
        /\ isLoading' = isLoading
        /\ UNCHANGED <<events, selectedEventId, selectedPlatform, isModalVisible,
                       platformSettings, time>>]_vars

\* A validation has just failed in the open modal of a selected event.
C11_Witness ==
    /\ last.op = "submit" /\ last.msg = MsgInvalid
    /\ isModalVisible /\ selectedEventId # NoId /\ ~isLoading

\* C12: from every reachable state closeModal() twice gives the state
\* closeModal() once gives; one call leaves events (and everything that is
\* not draft state) as it was, empties selectedEventId, hides the modal,
\* clears the loader and sets the drafts to the platform defaults; and the
\* closeModal step of the module is that function.
C12_CloseModalIdempotent ==
    [][LET once == closeModalState(stateRecord) IN
        /\ closeModalState(once) = once
        /\ once.events = events /\ once.isEventsLoaded = isEventsLoaded
        /\ once.time = time /\ once.selectedPlatform = selectedPlatform
        /\ once.selectedEventId = NoId /\ ~once.isModalVisible /\ ~once.isLoading
        /\ once.platformSettings = defaultPlatformSettings
        /\ (last'.op = "closeModal" => stateRecord' = once)]_vars

\* The modal has just been closed by closeModal() while events were listed.
C12_Witness ==
    last.op = "closeModal" /\ ~isModalVisible /\ events # <<>>

\* C13: whenever the modal is closed, the drafts are the platform defaults
\* and no event is selected.
C13_ClosedMeansDefaults ==
    ~isModalVisible =>
        platformSettings = defaultPlatformSettings /\ selectedEventId = NoId

\* The modal of a selected event has just been closed by a successful update.
C13_Witness ==
    last.op = "saveExistingStreamResolved" /\ ~isModalVisible /\ events # <<>>

\* C14: no two entries of events have the same id and the same platform.
C14_OneEventPerResource ==
    \A i, j \in 1..Len(events) :
        (events[i].id = events[j].id /\ events[i].platform = events[j].platform)
            => i = j

\* An update has just been written into a list that holds the same id once
\* for each platform.
C14_Witness ==
    /\ last.op = "saveExistingStreamResolved"
    /\ Len(events) = 2 /\ events[1].id = events[2].id

\* The other platform.
other(platform) == IF platform = "youtube" THEN "facebook" ELSE "youtube"

\* C15: showEditEventModal(eventId) takes an event of events with that id, and
\* when its options fetch resolves the modal is open with that event's id
\* selected, its platform selected, state.time at its date and the drafts of
\* its platform equal to the options fetched for it; the drafts of the other
\* platform and events are unchanged.
C15_EditModalOpens ==
    [][/\ (last'.op = "showEditEventModal" /\ ~last'.threw) =>
            \E ev \in Range(events) : edits' = BagAdd(edits, ev)
       /\ last'.op = "SHOW_EDIT_EVENT_MODAL" =>
            \E ev \in BagToSet(edits) :
               /\ edits' = BagRemove(edits, ev)
               /\ isModalVisible'
               /\ selectedEventId' = ev.id
               /\ selectedPlatform' = ev.platform
               /\ time' = ev.date
               /\ \E start \in Times :
                     platformSettings'[ev.platform] = startStreamOptions(ev, start)
               /\ platformSettings'[other(ev.platform)]
                     = platformSettings[other(ev.platform)]
               /\ events' = events]_vars

\* The edit modal has just opened on a Facebook event.
C15_Witness ==
    /\ last.op = "SHOW_EDIT_EVENT_MODAL" /\ isModalVisible
    /\ selectedPlatform = "facebook" /\ selectedEventId # NoId

\* The position of a platform's load sequence, and the positions at which its
\* prepopulateInfo() has completed.
loadOf(platform) == IF platform = "youtube" THEN ytLoad ELSE fbLoad
Prepopulated == {"fetch", "done", "fetchFailed"}

\* C16: a platform's fetch is issued by the step in which its
\* prepopulateInfo() completes, scheduleStream is issued only for a platform
\* whose prepopulateInfo() has completed, and the load sequence of a platform
\* that is not linked issues no call.
C16_PrepopulateFirst ==
    [][/\ \A p \in Platforms :
            /\ (loadOf(p)' = "fetch" /\ loadOf(p) # "fetch") => loadOf(p) = "prepop"
            /\ loadOf(p)' \in Prepopulated => loadOf(p) \in Prepopulated \cup {"prepop"}
            /\ ~linked(p) => loadOf(p)' \in {"idle", "skipped"}
       /\ last'.op = "saveNewStream" =>
            /\ loadOf(selectedPlatform) \in Prepopulated
            /\ \E req \in BagToSet(saves') :
                  req.kind = "create" /\ req.platform = selectedPlatform]_vars

\* scheduleStream is in flight for YouTube while Facebook is not linked.
C16_Witness ==
    /\ last.op = "saveNewStream" /\ selectedPlatform = "youtube"
    /\ fbLoad = "skipped" /\ ytLoad = "done"

\* EventButtons: which footer buttons are rendered.
shouldShowSave == selectedEvent # {}
shouldShowRemove == \E ev \in selectedEvent : ev.status = "scheduled"
shouldShowSchedule == selectedEvent = {}

\* C17: while the modal is open, Save is offered exactly when submit() would
\* update (isUpdateMode), Schedule exactly when it would create, and Delete
\* only for a selected event that is in events with status scheduled.
C17_ButtonsMatchSubmit ==
    isModalVisible =>
        /\ shouldShowSave <=> isUpdateMode
        /\ shouldShowSchedule <=> ~isUpdateMode
        /\ shouldShowRemove =>
              \E i \in 1..Len(events) :
                 events[i].id = selectedEventId /\ events[i].status = "scheduled"

\* C18: the cell of a day lists exactly the events whose date lies in the day,
\* its first and its last millisecond included, once each and in
\* non-decreasing date order.
C18_DayCells ==
    last.op = "dateCellRender" =>
        LET start == startOfDay(last.date)
            end == endOfDay(last.date)
            cell == last.cell
            inDay == {i \in 1..Len(events) :
                        /\ events[i].date # NaN
                        /\ start <= events[i].date /\ events[i].date <= end}
        IN /\ \A i \in 1..Len(events) : i \in inDay <=> events[i] \in Range(cell)
           /\ Len(cell) = Cardinality(inDay)
           /\ \A i, j \in 1..Len(cell) : i < j => cell[i].date <= cell[j].date

\* C19: a normalized YouTube broadcast has status scheduled exactly when its
\* lifecycle status is created or ready, and completed otherwise; its id and
\* title are the broadcast's and its platform is youtube.
C19_YoutubeStatus ==
    last.op = "setEvents" =>
        /\ Len(events) = Len(ytEvents) + Len(fbEvents)
        /\ \A i \in 1..Len(ytEvents) :
              /\ events[i].status = "scheduled"
                    <=> ytEvents[i].lifeCycleStatus \in {"created", "ready"}
              /\ events[i].status # "scheduled" => events[i].status = "completed"
              /\ events[i].id = ytEvents[i].id
              /\ events[i].title = ytEvents[i].title
              /\ events[i].platform = "youtube"

\* A created broadcast has been normalized.
C19_Witness ==
    /\ last.op = "setEvents" /\ Len(ytEvents) = 1
    /\ ytEvents[1].lifeCycleStatus = "created" /\ events[1].status = "scheduled"

\* C20: the date of a normalized event is that of the primary time field when
\* the field is present and that of the fallback field otherwise; a
\* normalized Facebook video has status scheduled and carries the video's
\* destination type and id.
C20_PrimaryThenFallback ==
    last.op = "setEvents" =>
        /\ \A i \in 1..Len(ytEvents) :
              events[i].date =
                 IF ytEvents[i].scheduledStartTime # ""
                 THEN DateValueOf(ytEvents[i].scheduledStartTime)
                 ELSE DateValueOf(ytEvents[i].actualStartTime)
        /\ \A i \in 1..Len(fbEvents) :
              LET ev == events[Len(ytEvents) + i] IN
              /\ ev.date =
                    IF fbEvents[i].planned_start_time # ""
                    THEN DateValueOf(fbEvents[i].planned_start_time)
                    ELSE DateValueOf(fbEvents[i].broadcast_start_time)
              /\ ev.status = "scheduled"
              /\ ev.platform = "facebook"
              /\ ev.facebook.destinationType = fbEvents[i].destinationType
              /\ ev.facebook.destinationId = fbEvents[i].destinationId
              /\ ev.facebook.destinationType \in DestTypes

\* A Facebook video with both time fields, set to different times, has been
\* normalized.
C20_Witness ==
    /\ last.op = "setEvents" /\ Len(fbEvents) = 1
    /\ fbEvents[1].planned_start_time # ""
    /\ fbEvents[1].broadcast_start_time # ""
    /\ fbEvents[1].planned_start_time # fbEvents[1].broadcast_start_time

\* C21: when an update resolves after its event has left events, every event
\* that is in events is still there afterwards, unchanged and at its position.
C21_LateUpdateHarmless ==
    [][last'.op = "saveExistingStreamResolved" =>
        \A req \in BagToSet(saves) :
           (/\ req.kind = "update" /\ saves' = BagRemove(saves, req)
            /\ find(events, req.id) = {})
              => \A i \in 1..Len(events) :
                    i <= Len(events') /\ events'[i] = events[i]]_vars

\* The save operations that complete a request, and the requests that the
\* modal which is open now cannot have issued: a create while an event is
\* selected, an update of another event than the selected one.
SaveCompletions ==
    {"saveExistingStreamResolved", "saveExistingStreamRejected",
     "saveNewStreamResolved", "saveNewStreamRejected"}
ofEarlierModal(req) ==
    IF req.kind = "create" THEN selectedEventId # NoId
    ELSE selectedEventId # req.id

\* C22: when a save request completes, with success or failure, while a
\* modal other than the one that issued it is open (the issuing modal was
\* closed, which cleared the loader), the open modal stays open and its
\* drafts and its selection stay as they are.
C22_CompletionKeepsNewModal ==
    [][last'.op \in SaveCompletions =>
        \A req \in BagToSet(saves) :
           (/\ saves' = BagRemove(saves, req)
            /\ isModalVisible /\ ~isLoading /\ ofEarlierModal(req))
              => /\ isModalVisible'
                 /\ platformSettings' = platformSettings
                 /\ selectedEventId' = selectedEventId]_vars

\* C23: whenever the modal is open on a selected event, an event with the
\* selected id is in events.
C23_SelectionInEvents ==
    (isModalVisible /\ selectedEventId # NoId) =>
        \E i \in 1..Len(events) : events[i].id = selectedEventId

\* C24: at most one create or update request is in flight.
C24_OneSaveInFlight ==
    BagCardinality(saves) <= 1

\* C25: saveNewStream never issues scheduleStream(time, settings) with a
\* time before the start of today.
C25_NoPastSchedule ==
    last.op = "saveNewStream" => time >= Today

====
